---- MODULE Spec2Model ----
(***************************************************************************)
(* Graceful server-lifecycle coordination of package runner:               *)
(* NewSignalGroup, RunFiber, RunGRPC, RunHandler and the errgroup they     *)
(* share.  Each goroutine is a small program counter; every action is one  *)
(* atomic step of one goroutine or of the environment (signal delivery,    *)
(* parent cancellation, transport failure).                                *)
(***************************************************************************)
EXTENDS Integers, Sequences, FiniteSets, TLC

\* ---- bounds ----
MaxAdapters == 2

Adapters == 1..MaxAdapters
Kinds == {"fiber", "grpc", "handler"}

\* error values: which adapter, which of its two tasks, and the cause
NoErr == [a |-> 0, task |-> "none", cause |-> "nil"]
Err(a, t, c) == [a |-> a, task |-> t, cause |-> c]

VARIABLES
    parentDone,     \* backgroundContext is cancelled
    sigRegistered,  \* signal.Notify registration of NotifyContext is active
    sigCh,          \* signals buffered in NotifyContext's channel (capacity 1)
    ctxDone,        \* ctx of signal.NotifyContext is done
    gCtxDone,       \* gCtx of errgroup.WithContext (the returned context) is done
    helperPc,       \* goroutine started by NewSignalGroup
    logged,         \* "Received interrupt signal, shutting down..." was logged
    logBeforeDone,  \* ctx was not yet done when the message was logged
    mainPc,         \* caller: registering adapters and waiting, or returned from Wait
    nAdapters,      \* adapters registered so far
    kind,           \* server kind of each registered adapter
    runPc,          \* run task of each adapter
    watchPc,        \* watch task of each adapter
    lis,            \* listener of each adapter's server
    srvStopped,     \* server-internal "shut down" flag
    stopCalls,      \* number of graceful-stop invocations per adapter
    stopBeforeDone, \* a graceful stop was invoked while gCtx was not done
    lateStart,      \* gCtx was done at registration and the run task has not begun
    lateBound,      \* a run task registered under a done gCtx bound a listener
    envFailed,      \* a bind, transport or stop failure happened
    groupErr,       \* errgroup's err (guarded by errOnce)
    firstErr,       \* the first non-nil error any task returned
    joinResult,     \* what Wait returned
    neverDrains,    \* the servers' in-flight requests never finish
    req,            \* a request that reaches a permission middleware, or a
                    \* call of one of the helper packages with its arguments
    resp            \* what the middleware did with it, or what the call gave

ctxVars == <<parentDone, sigRegistered, sigCh, ctxDone, helperPc, logged,
             logBeforeDone>>
srvVars == <<kind, runPc, watchPc, lis, srvStopped, stopCalls, stopBeforeDone,
             lateStart, lateBound, envFailed>>
grpVars == <<groupErr, firstErr>>
mainVars == <<mainPc, nAdapters, joinResult>>
vars == <<ctxVars, gCtxDone, srvVars, grpVars, mainVars, neverDrains, req, resp>>

\* no request is being handled
NoReq == [mw |-> "none"]

\* ---- NewSignalGroup: state right after it returned ----
RunnerInit ==
    /\ parentDone = FALSE
    /\ sigRegistered = TRUE
    /\ sigCh = 0
    /\ ctxDone = FALSE
    /\ gCtxDone = FALSE
    /\ helperPc = "wait"
    /\ logged = FALSE
    /\ logBeforeDone = FALSE
    /\ mainPc = "register"
    /\ nAdapters = 0
    /\ kind = [a \in Adapters |-> "none"]
    /\ runPc = [a \in Adapters |-> "none"]
    /\ watchPc = [a \in Adapters |-> "none"]
    /\ lis = [a \in Adapters |-> "none"]
    /\ srvStopped = [a \in Adapters |-> FALSE]
    /\ stopCalls = [a \in Adapters |-> 0]
    /\ stopBeforeDone = FALSE
    /\ lateStart = [a \in Adapters |-> FALSE]
    /\ lateBound = FALSE
    /\ envFailed = FALSE
    /\ groupErr = NoErr
    /\ firstErr = NoErr
    /\ joinResult = NoErr

\* the lifecycle coordinator with servers whose requests all finish
Init ==
    /\ RunnerInit
    /\ neverDrains = FALSE
    /\ req = NoReq
    /\ resp = "none"

\* ---- environment ----

\* the process receives os.Interrupt or SIGTERM while the registration is active;
\* the runtime's send on the channel of capacity 1 never blocks: a signal that
\* finds the channel full is dropped.  A signal that arrives once ctx is done
\* is read by nobody and is left out
Signal ==
    /\ sigRegistered
    /\ ~ctxDone
    /\ sigCh = 0
    /\ sigCh' = 1
    /\ UNCHANGED <<parentDone, sigRegistered, ctxDone, helperPc, logged,
                   logBeforeDone, gCtxDone, srvVars, grpVars, mainVars>>
    /\ UNCHANGED <<neverDrains, req, resp>>

\* faulty variant: the derived context is not linked to its parent
DerivedDoneUnlinked(parentIsDone, ownDone) == ownDone

\* a context derived from a cancelled context is cancelled in the same call
DerivedDone(parentIsDone, ownDone) == parentIsDone \/ ownDone

\* cancellation of backgroundContext reaches ctx and gCtx synchronously
\* (cancelling the parent of a context that is done already changes nothing)
ParentCancel ==
    /\ ~parentDone
    /\ ~ctxDone
    /\ parentDone' = TRUE
    /\ ctxDone' = DerivedDone(TRUE, ctxDone)
    /\ gCtxDone' = DerivedDone(ctxDone', gCtxDone)
    /\ UNCHANGED <<sigRegistered, sigCh, helperPc, logged, logBeforeDone,
                   srvVars, grpVars, mainVars>>
    /\ UNCHANGED <<neverDrains, req, resp>>

\* ---- signal.NotifyContext's goroutine: select { <-c.ch: c.cancel(); <-c.Done() } ----
\* (once ctx is done the goroutine's exit changes nothing that is observed)
NotifyRecv ==
    /\ sigCh = 1
    /\ ~ctxDone
    /\ sigCh' = 0
    /\ ctxDone' = TRUE
    /\ gCtxDone' = DerivedDone(ctxDone', gCtxDone)
    /\ UNCHANGED <<parentDone, sigRegistered, helperPc, logged, logBeforeDone,
                   srvVars, grpVars, mainVars>>
    /\ UNCHANGED <<neverDrains, req, resp>>

\* ---- NewSignalGroup's goroutine: <-ctx.Done(); log; cancel() ----

\* faulty variant: the goroutine logs and cancels without waiting
HelperReleasedEarly == TRUE

\* <-ctx.Done() of the goroutine
HelperReleased == ctxDone

\* cancel is signalCtx.stop: it cancels ctx and calls signal.Stop on the channel
HelperRun ==
    /\ helperPc = "wait"
    /\ HelperReleased
    /\ logged' = TRUE
    /\ logBeforeDone' = ~gCtxDone
    /\ ctxDone' = TRUE
    /\ gCtxDone' = DerivedDone(ctxDone', gCtxDone)
    /\ sigRegistered' = FALSE
    /\ helperPc' = "done"
    /\ UNCHANGED <<parentDone, sigCh, srvVars, grpVars, mainVars>>
    /\ UNCHANGED <<neverDrains, req, resp>>

\* ---- errgroup ----

\* faulty variant: every non-nil error overwrites the slot
ErrLast(e) == IF e # NoErr THEN e ELSE groupErr

\* errOnce.Do: only the first non-nil error is stored
ErrOnce(e) == IF e # NoErr /\ groupErr = NoErr THEN e ELSE groupErr

\* a function started with group.Go returns e
GoReturn(e) ==
    /\ firstErr' = IF firstErr = NoErr THEN e ELSE firstErr
    /\ groupErr' = ErrOnce(e)
    /\ gCtxDone' = (gCtxDone \/ e # NoErr)

TaskDone(pc) == pc \in {"none", "done"}

\* faulty variant: Wait returns as soon as an error is stored
WaitReadyOnError ==
    \/ groupErr # NoErr
    \/ \A a \in Adapters : TaskDone(runPc[a]) /\ TaskDone(watchPc[a])

\* wg.Wait(): every goroutine started with group.Go has returned
WaitReady == \A a \in Adapters : TaskDone(runPc[a]) /\ TaskDone(watchPc[a])

\* ---- caller ----

\* faulty variant: only the run task is added to the group
RegisterRunOnly(k) ==
    /\ mainPc = "register"
    /\ nAdapters < MaxAdapters
    /\ nAdapters' = nAdapters + 1
    /\ kind' = [kind EXCEPT ![nAdapters + 1] = k]
    /\ runPc' = [runPc EXCEPT ![nAdapters + 1] = "start"]
    /\ lateStart' = [lateStart EXCEPT ![nAdapters + 1] = gCtxDone]
    /\ UNCHANGED <<ctxVars, gCtxDone, watchPc, lis, srvStopped, stopCalls,
                   stopBeforeDone, lateBound, envFailed, grpVars, mainPc, joinResult>>
    /\ UNCHANGED <<neverDrains, req, resp>>

\* RunFiber / RunGRPC / RunHandler with the context NewSignalGroup returned:
\* two group.Go calls for one server instance
Register(k) ==
    /\ mainPc = "register"
    /\ nAdapters < MaxAdapters
    /\ nAdapters' = nAdapters + 1
    /\ kind' = [kind EXCEPT ![nAdapters + 1] = k]
    /\ runPc' = [runPc EXCEPT ![nAdapters + 1] = "start"]
    /\ watchPc' = [watchPc EXCEPT ![nAdapters + 1] = "wait"]
    /\ lateStart' = [lateStart EXCEPT ![nAdapters + 1] = gCtxDone]
    /\ UNCHANGED <<ctxVars, gCtxDone, lis, srvStopped, stopCalls, stopBeforeDone,
                   lateBound, envFailed, grpVars, mainPc, joinResult>>
    /\ UNCHANGED <<neverDrains, req, resp>>

\* the caller's group.Wait(): wg.Wait() is over, the group's cancel runs and
\* g.err is returned.  The caller registers nothing while it is blocked in
\* Wait, so the call and its return are one step, taken when wg.Wait() can
\* return
Wait ==
    /\ mainPc = "register"
    /\ WaitReady
    /\ mainPc' = "returned"
    /\ joinResult' = groupErr
    /\ gCtxDone' = TRUE
    /\ UNCHANGED <<ctxVars, srvVars, grpVars, nAdapters>>
    /\ UNCHANGED <<neverDrains, req, resp>>

\* ---- servers ----

\* faulty variant: the error is dropped
WrapDropped(a, t, cause) == NoErr

\* fmt.Errorf("...: %w", err) when err != nil, nil otherwise
Wrap(a, t, cause) == IF cause = "nil" THEN NoErr ELSE Err(a, t, cause)

\* what the blocking serve call returns when it ends because of graceful stop:
\* fiber's Listen and grpc's Serve return nil, http.Server's ListenAndServe
\* returns http.ErrServerClosed
StoppedCause(k) == IF k = "handler" THEN "closed" ELSE "nil"

\* a stop call is remembered by the server (http.Server.inShutdown, grpc's
\* quit event); fasthttp's Shutdown without a listener leaves no trace
StopSticks(k) == k # "fiber"

\* the run task of a returns with cause c
RunReturns(a, c) ==
    /\ runPc' = [runPc EXCEPT ![a] = "done"]
    /\ GoReturn(Wrap(a, "run", c))

\* the run task of a is now blocked in the serve loop
RunServes(a) ==
    /\ runPc' = [runPc EXCEPT ![a] = "serving"]
    /\ UNCHANGED <<gCtxDone, grpVars>>

\* the run task of a takes its first step; bound tells whether it now holds a
\* listener
RunBegins(a, bound) ==
    /\ lateStart' = [lateStart EXCEPT ![a] = FALSE]
    /\ lateBound' = (lateBound \/ (lateStart[a] /\ bound))

\* RunFiber's run task: fiberApp.Listen(addr) binds, then serves
FiberListen(a) ==
    /\ kind[a] = "fiber"
    /\ runPc[a] = "start"
    /\ \/ /\ RunReturns(a, "bind")
          /\ RunBegins(a, FALSE)
          /\ envFailed' = TRUE
          /\ UNCHANGED lis
       \/ /\ lis' = [lis EXCEPT ![a] = "bound"]
          /\ RunServes(a)
          /\ RunBegins(a, TRUE)
          /\ UNCHANGED envFailed
    /\ UNCHANGED <<ctxVars, kind, watchPc, srvStopped, stopCalls, stopBeforeDone,
                   mainVars>>
    /\ UNCHANGED <<neverDrains, req, resp>>

\* faulty variant: the result of net.Listen is not looked at
GRPCListenUnchecked(a) ==
    /\ kind[a] = "grpc"
    /\ runPc[a] = "start"
    /\ \/ /\ envFailed' = TRUE
          /\ UNCHANGED lis
       \/ /\ lis' = [lis EXCEPT ![a] = "bound"]
          /\ UNCHANGED envFailed
    /\ runPc' = [runPc EXCEPT ![a] = "bound"]
    /\ RunBegins(a, TRUE)
    /\ UNCHANGED <<gCtxDone, grpVars>>
    /\ UNCHANGED <<ctxVars, kind, watchPc, srvStopped, stopCalls, stopBeforeDone,
                   mainVars>>
    /\ UNCHANGED <<neverDrains, req, resp>>

\* RunGRPC's run task, first statement: net.Listen("tcp", addr)
GRPCListen(a) ==
    /\ kind[a] = "grpc"
    /\ runPc[a] = "start"
    /\ \/ /\ RunReturns(a, "bind")
          /\ RunBegins(a, FALSE)
          /\ envFailed' = TRUE
          /\ UNCHANGED lis
       \/ /\ lis' = [lis EXCEPT ![a] = "bound"]
          /\ runPc' = [runPc EXCEPT ![a] = "bound"]
          /\ RunBegins(a, TRUE)
          /\ UNCHANGED <<gCtxDone, grpVars, envFailed>>
    /\ UNCHANGED <<ctxVars, kind, watchPc, srvStopped, stopCalls, stopBeforeDone,
                   mainVars>>
    /\ UNCHANGED <<neverDrains, req, resp>>

\* RunGRPC's run task, second statement: grpcServer.Serve(lis); a server that
\* was already stopped closes lis and returns ErrServerStopped
GRPCServe(a) ==
    /\ kind[a] = "grpc"
    /\ runPc[a] = "bound"
    /\ IF srvStopped[a]
         THEN /\ lis' = [lis EXCEPT ![a] = "closed"]
              /\ RunReturns(a, "stopped")
         ELSE /\ RunServes(a)
              /\ UNCHANGED lis
    /\ UNCHANGED <<ctxVars, kind, watchPc, srvStopped, stopCalls, stopBeforeDone,
                   lateStart, lateBound, envFailed, mainVars>>
    /\ UNCHANGED <<neverDrains, req, resp>>

\* RunHandler's run task: srv.ListenAndServe(); after Shutdown it returns
\* http.ErrServerClosed without serving
HandlerListenAndServe(a) ==
    /\ kind[a] = "handler"
    /\ runPc[a] = "start"
    /\ IF srvStopped[a]
         THEN /\ RunReturns(a, StoppedCause("handler"))
              /\ RunBegins(a, FALSE)
              /\ UNCHANGED <<lis, envFailed>>
         ELSE \/ /\ RunReturns(a, "bind")
                 /\ RunBegins(a, FALSE)
                 /\ envFailed' = TRUE
                 /\ UNCHANGED lis
              \/ /\ lis' = [lis EXCEPT ![a] = "bound"]
                 /\ RunServes(a)
                 /\ RunBegins(a, TRUE)
                 /\ UNCHANGED envFailed
    /\ UNCHANGED <<ctxVars, kind, watchPc, srvStopped, stopCalls, stopBeforeDone,
                   mainVars>>
    /\ UNCHANGED <<neverDrains, req, resp>>

\* the blocking serve call returns because graceful stop closed the listener
ServeReturn(a) ==
    /\ runPc[a] = "serving"
    /\ lis[a] = "closed"
    /\ RunReturns(a, StoppedCause(kind[a]))
    /\ UNCHANGED <<ctxVars, kind, watchPc, lis, srvStopped, stopCalls,
                   stopBeforeDone, lateStart, lateBound, envFailed, mainVars>>
    /\ UNCHANGED <<neverDrains, req, resp>>

\* the blocking serve call returns a transport-level error (failed Accept)
ServeFail(a) ==
    /\ runPc[a] = "serving"
    /\ lis[a] = "bound"
    /\ lis' = [lis EXCEPT ![a] = "closed"]
    /\ envFailed' = TRUE
    /\ RunReturns(a, "serve")
    /\ UNCHANGED <<ctxVars, kind, watchPc, srvStopped, stopCalls, stopBeforeDone,
                   lateStart, lateBound, mainVars>>
    /\ UNCHANGED <<neverDrains, req, resp>>

\* faulty variant: the watch task does not wait for the context
WatchReleasedAlways == TRUE

\* <-ctx.Done() of a watch task
WatchReleased == gCtxDone

\* faulty variant: the done-signal is a token the first receiver takes away
DoneConsumed == FALSE

\* a receive from the closed Done channel leaves the context done
DoneAfterReceive == gCtxDone

\* faulty variant: the watch task goes back to waiting and stops again
AfterStopLoop == "wait"

\* program counter of a watch task once it has called the stop operation
AfterStop == "stopping"

\* watch task: <-ctx.Done() is over, Shutdown / GracefulStop is invoked and
\* closes the listener the server is serving on
WatchStop(a) ==
    /\ watchPc[a] = "wait"
    /\ WatchReleased
    /\ watchPc' = [watchPc EXCEPT ![a] = AfterStop]
    /\ stopCalls' = [stopCalls EXCEPT ![a] = @ + 1]
    /\ stopBeforeDone' = (stopBeforeDone \/ ~gCtxDone)
    /\ srvStopped' = [srvStopped EXCEPT ![a] = StopSticks(kind[a])]
    /\ lis' = [lis EXCEPT ![a] = IF runPc[a] = "serving" /\ @ = "bound"
                                   THEN "closed" ELSE @]
    /\ gCtxDone' = DoneAfterReceive
    /\ UNCHANGED <<ctxVars, kind, runPc, lateStart, lateBound, envFailed,
                   grpVars, mainVars>>
    /\ UNCHANGED <<neverDrains, req, resp>>

\* faulty variant: srv.Shutdown gets a fresh context with a timeout of its own
StopCausesFreshContext(k) ==
    CASE k = "fiber" -> IF neverDrains THEN {} ELSE {"nil", "shutdown"}
      [] k = "grpc" -> IF neverDrains THEN {} ELSE {"nil"}
      [] k = "handler" -> IF neverDrains THEN {"deadline"} ELSE {"nil"}

\* faulty variant: srv.Shutdown is not bounded by the context and waits for
\* the connections like the other kinds
StopCausesUnbounded(k) ==
    CASE k = "fiber" -> IF neverDrains THEN {} ELSE {"nil", "shutdown"}
      [] k = "grpc" -> IF neverDrains THEN {} ELSE {"nil"}
      [] k = "handler" -> IF neverDrains THEN {} ELSE {"nil", "ctx"}

\* what the stop operation can return, if it returns: fiber's Shutdown nil or
\* an error and GracefulStop nothing, both only once the in-flight requests
\* have finished; srv.Shutdown(ctx), whose ctx is done already, nil when no
\* connection is active and ctx.Err() otherwise
StopCauses(k) ==
    CASE k = "fiber" -> IF neverDrains THEN {} ELSE {"nil", "shutdown"}
      [] k = "grpc" -> IF neverDrains THEN {} ELSE {"nil"}
      [] k = "handler" -> IF neverDrains THEN {"ctx"} ELSE {"nil", "ctx"}

\* watch task: the stop operation returns and the task returns
WatchReturn(a) ==
    /\ watchPc[a] = "stopping"
    /\ \E c \in StopCauses(kind[a]) :
          /\ envFailed' = (envFailed \/ c # "nil")
          /\ GoReturn(Wrap(a, "watch", c))
    /\ watchPc' = [watchPc EXCEPT ![a] = "done"]
    /\ UNCHANGED <<ctxVars, kind, runPc, lis, srvStopped, stopCalls,
                   stopBeforeDone, lateStart, lateBound, mainVars>>
    /\ UNCHANGED <<neverDrains, req, resp>>

Next ==
    \/ \E a \in Adapters : FiberListen(a)
    \/ \E a \in Adapters : GRPCListen(a)
    \/ \E a \in Adapters : GRPCServe(a)
    \/ \E a \in Adapters : HandlerListenAndServe(a)
    \/ \E a \in Adapters : ServeReturn(a)
    \/ \E a \in Adapters : ServeFail(a)
    \/ \E a \in Adapters : WatchStop(a)
    \/ \E a \in Adapters : WatchReturn(a)
    \/ Signal
    \/ ParentCancel
    \/ NotifyRecv
    \/ HelperRun
    \/ \E k \in Kinds : Register(k)
    \/ Wait


Spec == Init /\ [][Next]_vars

\* every goroutine that can take a step eventually takes it; signals, parent
\* cancellation, registrations and transport failures are up to the environment
FairSpec ==
    /\ Spec
    /\ WF_vars(NotifyRecv)
    /\ WF_vars(HelperRun)
    /\ WF_vars(Wait)
    /\ \A a \in Adapters :
          /\ WF_vars(FiberListen(a))
          /\ WF_vars(GRPCListen(a))
          /\ WF_vars(GRPCServe(a))
          /\ WF_vars(HandlerListenAndServe(a))
          /\ WF_vars(ServeReturn(a))
          /\ WF_vars(WatchStop(a))
          /\ WF_vars(WatchReturn(a))

\* ---- one RunHandler adapter whose handler may never drain ----
HandlerInit ==
    /\ RunnerInit
    /\ neverDrains \in BOOLEAN
    /\ req = NoReq
    /\ resp = "none"

HandlerNext ==
    \/ (nAdapters = 0 /\ Register("handler"))
    \/ HandlerListenAndServe(1)
    \/ ServeReturn(1)
    \/ ServeFail(1)
    \/ WatchStop(1)
    \/ WatchReturn(1)
    \/ Signal
    \/ ParentCancel
    \/ NotifyRecv
    \/ HelperRun
    \/ Wait

HandlerSpec ==
    /\ HandlerInit
    /\ [][HandlerNext]_vars
    /\ WF_vars(NotifyRecv)
    /\ WF_vars(HelperRun)
    /\ WF_vars(Wait)
    /\ WF_vars(HandlerListenAndServe(1))
    /\ WF_vars(ServeReturn(1))
    /\ WF_vars(WatchStop(1))
    /\ WF_vars(WatchReturn(1))

\* ---- package jwtmiddleware: permission middlewares ----
\* A string is the sequence of its characters; "did", "erc721" and the
\* permission names stand for themselves.

\* longest permission list of a middleware and of a token
MaxPerms == 2

\* number of hex digits of an address (2 * common.AddressLength, scaled down)
AddrHexLen == 2

Perms == {"p1", "p2"}

PermLists == UNION {[1..n -> Perms] : n \in 0..MaxPerms}

Rep(c, n) == [i \in 1..n |-> c]

Digits == {"0", "1", "2"}

DigitVal(c) == CASE c = "0" -> 0 [] c = "1" -> 1 [] c = "2" -> 2

RECURSIVE NatVal(_)
NatVal(s) ==
    IF s = <<>> THEN 0
    ELSE 10 * NatVal(SubSeq(s, 1, Len(s) - 1)) + DigitVal(s[Len(s)])

\* big.Int.SetString(s, 10): an optional sign, then one or more decimal
\* digits up to the end of the string
SetString10(s) ==
    LET signed == s # <<>> /\ s[1] \in {"+", "-"}
        body == IF signed THEN Tail(s) ELSE s
        ok == body # <<>> /\ \A i \in DOMAIN body : body[i] \in Digits
    IN  [ok |-> ok,
         val |-> IF ~ok THEN 0
                 ELSE IF s[1] = "-" THEN 0 - NatVal(body) ELSE NatVal(body)]

HexChars == {"0", "1", "2", "a", "A"}

HexVal(c) ==
    CASE c = "0" -> 0 [] c = "1" -> 1 [] c = "2" -> 2 [] c \in {"a", "A"} -> 10

has0xPrefix(s) == Len(s) >= 2 /\ s[1] = "0" /\ s[2] \in {"x", "X"}

HexBody(s) == IF has0xPrefix(s) THEN SubSeq(s, 3, Len(s)) ELSE s

\* common.IsHexAddress: after an optional 0x, exactly 2 * AddressLength hex
\* digits
IsHexAddress(s) ==
    /\ Len(HexBody(s)) = AddrHexLen
    /\ \A i \in DOMAIN HexBody(s) : HexBody(s)[i] \in HexChars

\* common.HexToAddress of a string that IsHexAddress accepts: the bytes the
\* digits denote, whatever their case
HexToAddress(s) == [i \in 1..AddrHexLen |-> HexVal(HexBody(s)[i])]

\* strings.Split(s, ":")
RECURSIVE Split(_)
Split(s) ==
    IF \A i \in DOMAIN s : s[i] # ":" THEN <<s>>
    ELSE LET i == CHOOSE k \in DOMAIN s :
                      s[k] = ":" /\ \A j \in 1..(k - 1) : s[j] # ":"
         IN  <<SubSeq(s, 1, i - 1)>> \o Split(SubSeq(s, i + 1, Len(s)))

NoDID == [ok |-> FALSE, contract |-> <<>>, tokenID |-> 0]

\* cloudevent.DecodeERC721DID: did:erc721:<chain id>:<contract>:<token id>
DecodeERC721DID(did) ==
    LET parts == Split(did) IN
    IF Len(parts) # 5 THEN NoDID
    ELSE IF parts[1] # <<"did">> \/ parts[2] # <<"erc721">> THEN NoDID
    ELSE IF ~SetString10(parts[5]).ok THEN NoDID
    ELSE IF ~IsHexAddress(parts[4]) THEN NoDID
    ELSE IF parts[3] = <<>> \/ \E i \in DOMAIN parts[3] : parts[3][i] \notin Digits
         THEN NoDID
    ELSE [ok |-> TRUE, contract |-> HexToAddress(parts[4]),
          tokenID |-> SetString10(parts[5]).val]

\* getTokenID: the path parameter parsed as a decimal big.Int
getTokenID(param) ==
    [err |-> ~SetString10(param).ok, present |-> TRUE, val |-> SetString10(param).val]

\* the nil *big.Int the address middlewares pass
NilTokenID == [err |-> FALSE, present |-> FALSE, val |-> 0]

\* getEthAddress: the path parameter as an address
getEthAddress(param) ==
    IF ~IsHexAddress(param) THEN [err |-> TRUE, addr |-> <<>>]
    ELSE [err |-> FALSE, addr |-> HexToAddress(param)]

\* faulty variant: the contract of the DID is not compared
validateTokenIDOnly(contract, tokenID, r) ==
    LET assetDID == DecodeERC721DID(r.asset) IN
    IF ~assetDID.ok THEN "401"
    ELSE IF tokenID.present /\ assetDID.tokenID # tokenID.val THEN "401"
    ELSE "nil"

validateTokenIDAndAddress(contract, tokenID, r) ==
    LET assetDID == DecodeERC721DID(r.asset) IN
    IF ~assetDID.ok THEN "401"
    ELSE IF tokenID.present /\ assetDID.tokenID # tokenID.val THEN "401"
    ELSE IF assetDID.contract # contract THEN "401"
    ELSE "nil"

\* slices.Contains
Contains(list, v) == \E i \in DOMAIN list : list[i] = v

\* faulty variant: only the first required permission is looked up
AllLoopFirstOnly(permissions, tokenPerms) ==
    IF permissions = <<>> THEN "next"
    ELSE IF ~Contains(tokenPerms, Head(permissions)) THEN "401"
    ELSE "next"

\* checkAllPrivileges, the loop over the required permissions
RECURSIVE AllLoop(_, _)
AllLoop(permissions, tokenPerms) ==
    IF permissions = <<>> THEN "next"
    ELSE IF ~Contains(tokenPerms, Head(permissions)) THEN "401"
    ELSE AllLoop(Tail(permissions), tokenPerms)

\* faulty variant: only the first required permission is looked up
OneLoopFirstOnly(permissions, tokenPerms) ==
    IF permissions = <<>> THEN "401"
    ELSE IF Contains(tokenPerms, Head(permissions)) THEN "next"
    ELSE "401"

\* checkOneOfPrivileges, the loop over the required permissions
RECURSIVE OneLoop(_, _)
OneLoop(permissions, tokenPerms) ==
    IF permissions = <<>> THEN "401"
    ELSE IF Contains(tokenPerms, Head(permissions)) THEN "next"
    ELSE OneLoop(Tail(permissions), tokenPerms)

\* GetTokenClaim fails when the context holds no token claims
checkAllPrivileges(r, contract, tokenID) ==
    IF ~r.hasClaims THEN "401"
    ELSE IF validateTokenIDAndAddress(contract, tokenID, r) # "nil" THEN "401"
    ELSE AllLoop(r.permissions, r.tokenPerms)

checkOneOfPrivileges(r, contract, tokenID) ==
    IF ~r.hasClaims THEN "401"
    ELSE IF validateTokenIDAndAddress(contract, tokenID, r) # "nil" THEN "401"
    ELSE OneLoop(r.permissions, r.tokenPerms)

AllOfPermissions ==
    /\ req.mw = "AllOfPermissions"
    /\ resp = "none"
    /\ resp' = IF getTokenID(req.param).err THEN "401"
               ELSE checkAllPrivileges(req, req.contract, getTokenID(req.param))
    /\ UNCHANGED <<ctxVars, gCtxDone, srvVars, grpVars, mainVars, neverDrains, req>>

OneOfPermissions ==
    /\ req.mw = "OneOfPermissions"
    /\ resp = "none"
    /\ resp' = IF getTokenID(req.param).err THEN "401"
               ELSE checkOneOfPrivileges(req, req.contract, getTokenID(req.param))
    /\ UNCHANGED <<ctxVars, gCtxDone, srvVars, grpVars, mainVars, neverDrains, req>>

AllOfPermissionsAddress ==
    /\ req.mw = "AllOfPermissionsAddress"
    /\ resp = "none"
    /\ resp' = IF getEthAddress(req.param).err THEN "401"
               ELSE checkAllPrivileges(req, getEthAddress(req.param).addr, NilTokenID)
    /\ UNCHANGED <<ctxVars, gCtxDone, srvVars, grpVars, mainVars, neverDrains, req>>

OneOfPermissionsAddress ==
    /\ req.mw = "OneOfPermissionsAddress"
    /\ resp = "none"
    /\ resp' = IF getEthAddress(req.param).err THEN "401"
               ELSE checkOneOfPrivileges(req, getEthAddress(req.param).addr, NilTokenID)
    /\ UNCHANGED <<ctxVars, gCtxDone, srvVars, grpVars, mainVars, neverDrains, req>>

\* ---- the requests the middlewares are applied to ----
TokenIDParams ==
    {<<"1">>, <<"2">>, <<"0", "1">>, <<"-", "1">>, <<"+", "1">>, <<"x">>,
     <<"1", "x">>, <<"-">>}

AddressBodies ==
    {Rep("a", AddrHexLen), Rep("A", AddrHexLen), Rep("1", AddrHexLen),
     Rep("a", AddrHexLen - 1), Rep("a", AddrHexLen + 1), Rep("g", AddrHexLen)}

AddressParams ==
    AddressBodies \cup {<<"0", "x">> \o b : b \in AddressBodies}
                  \cup {<<"0", "X">> \o b : b \in AddressBodies}

Contracts == {HexToAddress(Rep("a", AddrHexLen)), HexToAddress(Rep("1", AddrHexLen))}

DID(method, chain, contract, tokenID) ==
    <<"did", ":">> \o method \o <<":">> \o chain \o <<":">> \o contract
                   \o <<":">> \o tokenID

Assets ==
    {DID(<<"erc721">>, <<"1">>, c, t) :
        c \in {<<"0", "x">> \o Rep("a", AddrHexLen), <<"0", "x">> \o Rep("1", AddrHexLen),
               Rep("A", AddrHexLen), <<"0", "x">> \o Rep("g", AddrHexLen)},
        t \in {<<"1">>, <<"2">>, <<"-", "1">>, <<"x">>}}
    \cup {DID(<<"ethr">>, <<"1">>, <<"0", "x">> \o Rep("a", AddrHexLen), <<"1">>),
          DID(<<"erc721">>, <<"x">>, <<"0", "x">> \o Rep("a", AddrHexLen), <<"1">>),
          <<"did", ":", "erc721", ":", "1", ":">> \o Rep("a", AddrHexLen),
          <<"invalid", ":", "did", ":", "format">>}

Claims ==
    [hasClaims : {TRUE}, asset : Assets, tokenPerms : PermLists]
        \cup {[hasClaims |-> FALSE, asset |-> <<>>, tokenPerms |-> <<>>]}

Request(mw, contract, param, permissions, c) ==
    [mw |-> mw, contract |-> contract, param |-> param, permissions |-> permissions,
     hasClaims |-> c.hasClaims, asset |-> c.asset, tokenPerms |-> c.tokenPerms]

TokenRequests ==
    {"AllOfPermissions", "OneOfPermissions"} \X Contracts \X TokenIDParams

AddressRequests ==
    {"AllOfPermissionsAddress", "OneOfPermissionsAddress"} \X {<<>>} \X AddressParams

PermInit ==
    /\ RunnerInit
    /\ neverDrains = FALSE
    /\ \E r \in TokenRequests \cup AddressRequests, permissions \in PermLists, c \in Claims :
           req = Request(r[1], r[2], r[3], permissions, c)
    /\ resp = "none"

PermNext ==
    \/ AllOfPermissions
    \/ OneOfPermissions
    \/ AllOfPermissionsAddress
    \/ OneOfPermissionsAddress

PermSpec == PermInit /\ [][PermNext]_vars

\* ---- helper packages: metrics, richerrors, commonfiber, errorhandler, monserver ----
\* A call is a record with the function's name in fn and its arguments; its
\* outcome is a record with done = TRUE.

NotCalled == [done |-> FALSE]

Returned(v) == [done |-> TRUE, panic |-> FALSE, val |-> v]

Panicked == [done |-> TRUE, panic |-> TRUE]

LibUnchanged == UNCHANGED <<ctxVars, gCtxDone, srvVars, grpVars, mainVars, neverDrains, req>>

\* ---- package metrics ----

\* faulty variant: the thresholds belong to the next range
GetResponseSizeRangeExclusive(size) ==
    CASE size < 10 * 1024 -> "0-10KB"
      [] size >= 10 * 1024 /\ size < 100 * 1024 -> "10-100KB"
      [] size >= 100 * 1024 /\ size < 1024 * 1024 -> "100KB-1MB"
      [] size >= 1024 * 1024 /\ size < 10 * 1024 * 1024 -> "1-10MB"
      [] size >= 10 * 1024 * 1024 /\ size < 1024 * 1024 * 1024 -> "10MB-1GB"
      [] OTHER -> ">1GB"

\* the switch takes the first case that holds
GetResponseSizeRange(size) ==
    IF size <= 10 * 1024 THEN "0-10KB"
    ELSE IF size <= 100 * 1024 THEN "10-100KB"
    ELSE IF size <= 1024 * 1024 THEN "100KB-1MB"
    ELSE IF size <= 10 * 1024 * 1024 THEN "1-10MB"
    ELSE IF size <= 1024 * 1024 * 1024 THEN "10MB-1GB"
    ELSE ">1GB"

GetFieldComplexityRange(count) ==
    IF count <= 5 THEN "0-5"
    ELSE IF count <= 10 THEN "6-10"
    ELSE IF count <= 20 THEN "11-20"
    ELSE IF count <= 40 THEN "21-40"
    ELSE "41+"

\* how far the sampled inputs reach below zero and around each threshold
MaxAround == 2

SizeThresholds ==
    {0, 10 * 1024, 100 * 1024, 1024 * 1024, 10 * 1024 * 1024, 1024 * 1024 * 1024}

Sizes == {t + d : t \in SizeThresholds, d \in (0 - MaxAround)..MaxAround}

Counts == (0 - MaxAround)..(41 + MaxAround)

CallGetResponseSizeRange ==
    /\ req.fn = "GetResponseSizeRange"
    /\ ~resp.done
    /\ resp' = Returned(GetResponseSizeRange(req.size))
    /\ LibUnchanged

CallGetFieldComplexityRange ==
    /\ req.fn = "GetFieldComplexityRange"
    /\ ~resp.done
    /\ resp' = Returned(GetFieldComplexityRange(req.count))
    /\ LibUnchanged

\* ---- package richerrors ----
\* Two revisions of Error.Error are in the sources; a call is made on one of them.
\* A string is the sequence of its parts; "" is the empty sequence.

Revisions == {"richerros.go", "part_001"}

\* e.Err.Error(): a method call on a nil interface value panics
ErrError(e) == IF e.Err = "nil" THEN Panicked ELSE Returned(<<e.Err>>)

\* fmt.Sprintf("%s: %s", e.ExternalMsg, e.Err.Error())
Sprintf(e) ==
    IF ErrError(e).panic THEN Panicked
    ELSE Returned(e.ExternalMsg \o <<": ">> \o ErrError(e).val)

\* Error.Error as in richerros.go
ErrorRicherros(e) ==
    IF e.ExternalMsg # <<>> /\ e.Err # "nil" THEN Sprintf(e)
    ELSE IF e.ExternalMsg # <<>> THEN Returned(e.ExternalMsg)
    ELSE ErrError(e)

\* Error.Error as in part_001
ErrorPart001(e) ==
    IF e.ExternalMsg # <<>> THEN Sprintf(e)
    ELSE IF e.Err # "nil" THEN ErrError(e)
    ELSE Returned(<<>>)

Error(rev, e) == IF rev = "richerros.go" THEN ErrorRicherros(e) ELSE ErrorPart001(e)

String(rev, e) == Error(rev, e)

\* []byte(e.Error()), nil
MarshalText(rev, e) == Error(rev, e)

RichErrors == [Code : {0, 404}, ExternalMsg : {<<>>, <<"not found">>}, Err : {"nil", "query failed"}]

CallError ==
    /\ req.fn = "Error"
    /\ ~resp.done
    /\ resp' = Error(req.rev, req.e)
    /\ LibUnchanged

CallString ==
    /\ req.fn = "String"
    /\ ~resp.done
    /\ resp' = String(req.rev, req.e)
    /\ LibUnchanged

CallMarshalText ==
    /\ req.fn = "MarshalText"
    /\ ~resp.done
    /\ resp' = MarshalText(req.rev, req.e)
    /\ LibUnchanged

\* ---- error chains ----
\* An error is the sequence of the errors Unwrap walks through, outermost
\* first; the empty sequence is nil.

\* wrappers around an error, at most
MaxChain == 2

SeqsUpTo(S, n) == UNION {[1..k -> S] : k \in 0..n}

\* ---- package commonfiber ----
RichNodes == [kind : {"rich"}, Code : {0, 400, 404}, ExternalMsg : {<<>>, <<"no such user">>}]

FiberNodes == [kind : {"fiber"}, Code : {401, 404}, Message : {<<"Unauthorized">>}]

PlainNode == [kind |-> "plain", text |-> "query failed"]

\* a *fiber.Error has no Unwrap, so it ends the chain
FiberChains ==
    {c \in {w \o t : w \in SeqsUpTo(RichNodes \cup {PlainNode}, MaxChain),
                     t \in {<<>>} \cup {<<f>> : f \in FiberNodes}} : c # <<>>}

\* errors.As(err, &target) for a target of the given type
RECURSIVE As(_, _)
As(chain, type) ==
    IF chain = <<>> THEN [ok |-> FALSE]
    ELSE IF Head(chain).kind = type THEN [ok |-> TRUE, target |-> Head(chain)]
    ELSE IF Head(chain).kind = "fiber" THEN [ok |-> FALSE]
    ELSE As(Tail(chain), type)

\* err.Error() of a chain.  A rich error at the end of the chain has a nil
\* Err; the text of an error made by fmt.Errorf or errors.New is fixed when
\* it is made.
RECURSIVE ChainError(_, _)
ChainError(rev, chain) ==
    LET n == Head(chain) IN
    IF n.kind = "plain" THEN Returned(<<n.text>>)
    ELSE IF n.kind = "fiber" THEN Returned(n.Message)
    ELSE IF Tail(chain) = <<>>
    THEN Error(rev, [Code |-> n.Code, ExternalMsg |-> n.ExternalMsg, Err |-> "nil"])
    ELSE IF ChainError(rev, Tail(chain)).panic THEN Panicked
    ELSE Error(rev, [Code |-> n.Code, ExternalMsg |-> n.ExternalMsg, Err |-> "wrapped"])

\* logger.Err(err)...Msg(...): an enabled logger calls err.Error(); then
\* ctx.Status(code).JSON(CodedResponse{Code: code, Message: message})
Respond(rev, logging, err, code, message) ==
    IF code # 404 /\ logging /\ ChainError(rev, err).panic THEN Panicked
    ELSE Returned([status |-> code, body |-> [Code |-> code, Message |-> message],
                   logged |-> code # 404])

ErrorHandler(rev, logging, err) ==
    IF As(err, "fiber").ok
    THEN Respond(rev, logging, err,
                 As(err, "fiber").target.Code, As(err, "fiber").target.Message)
    ELSE IF As(err, "rich").ok
    THEN Respond(rev, logging, err,
                 IF As(err, "rich").target.Code # 0 THEN As(err, "rich").target.Code
                 ELSE 500,
                 As(err, "rich").target.ExternalMsg)
    ELSE Respond(rev, logging, err, 500, <<"Internal error">>)

CallErrorHandler ==
    /\ req.fn = "ErrorHandler"
    /\ ~resp.done
    /\ resp' = ErrorHandler(req.rev, req.logging, req.err)
    /\ LibUnchanged

\* ---- package errorhandler ----
GqlNodes ==
    [kind : {"gql"}, Message : {"bad input", "no such vehicle"},
     Extensions : {"nil", "BAD_REQUEST"}]

RawNodes == [kind : {"plain"}, Message : {"pq: connection refused"}, Extensions : {"nil"}]

GqlChains == SeqsUpTo(GqlNodes \cup RawNodes, MaxChain)

\* err.Error() of the outermost error
ErrorText(chain) == [i \in DOMAIN chain |-> chain[i].Message]

\* gqlerror.WrapPath(path, err)
WrapPath(err) == [isNil |-> FALSE, Message |-> ErrorText(err), Extensions |-> "nil"]

\* faulty variant: the message WrapPath took from the error is kept
ErrorPresenterRaw(err) ==
    IF err = <<>> THEN [isNil |-> TRUE]
    ELSE IF ~As(err, "gql").ok THEN WrapPath(err)
    ELSE [isNil |-> FALSE, Message |-> <<As(err, "gql").target.Message>>,
          Extensions |-> As(err, "gql").target.Extensions]

ErrorPresenter(err) ==
    IF err = <<>> THEN [isNil |-> TRUE]
    ELSE IF ~As(err, "gql").ok
    THEN [WrapPath(err) EXCEPT !.Message = <<"internal server error">>]
    ELSE [isNil |-> FALSE, Message |-> <<As(err, "gql").target.Message>>,
          Extensions |-> As(err, "gql").target.Extensions]

CallErrorPresenter ==
    /\ req.fn = "ErrorPresenter"
    /\ ~resp.done
    /\ resp' = Returned(ErrorPresenter(req.err))
    /\ LibUnchanged

\* ---- the calls that are examined ----
\* ---- package monserver ----
\* The sources hold two revisions of NewMonitoringServer.
MonRevisions == {"monserver.go", "part_000"}

\* runtimepprof.Profiles()
Profiles == <<"allocs", "block", "goroutine", "heap", "mutex", "threadcreate">>

\* A pattern "[METHOD ]/a/b[/]": method "" is any method, tree is the
\* trailing slash.
Pattern(method, segs, tree, handler) ==
    [method |-> method, segs |-> segs, tree |-> tree, handler |-> handler]

IsPrefix(a, b) == Len(a) <= Len(b) /\ SubSeq(b, 1, Len(a)) = a

\* net/http pattern.compareMethods
CompareMethods(p1, p2) ==
    IF p1.method = p2.method THEN "equivalent"
    ELSE IF p1.method = "" THEN "moreGeneral"
    ELSE IF p2.method = "" THEN "moreSpecific"
    ELSE IF p1.method = "GET" /\ p2.method = "HEAD" THEN "moreGeneral"
    ELSE IF p2.method = "GET" /\ p1.method = "HEAD" THEN "moreSpecific"
    ELSE "disjoint"

\* net/http pattern.comparePaths, for patterns of literal segments
ComparePaths(p1, p2) ==
    IF p1.segs = p2.segs /\ p1.tree = p2.tree THEN "equivalent"
    ELSE IF p1.tree /\ IsPrefix(p1.segs, p2.segs) /\ p1.segs # p2.segs THEN "moreGeneral"
    ELSE IF p2.tree /\ IsPrefix(p2.segs, p1.segs) /\ p1.segs # p2.segs THEN "moreSpecific"
    ELSE "disjoint"

Inverse(r) ==
    IF r = "moreGeneral" THEN "moreSpecific"
    ELSE IF r = "moreSpecific" THEN "moreGeneral"
    ELSE r

\* net/http combineRelationships
CombineRelationships(r1, r2) ==
    IF r1 = "equivalent" THEN r2
    ELSE IF r1 \in {"disjoint", "overlaps"} THEN r1
    ELSE IF r2 = "equivalent" THEN r1
    ELSE IF r2 = Inverse(r1) THEN "overlaps"
    ELSE r2

ComparePathsAndMethods(p1, p2) ==
    IF CompareMethods(p1, p2) = "disjoint" \/ ComparePaths(p1, p2) = "disjoint"
    THEN "disjoint"
    ELSE CombineRelationships(CompareMethods(p1, p2), ComparePaths(p1, p2))

ConflictsWith(p1, p2) == ComparePathsAndMethods(p1, p2) \in {"equivalent", "overlaps"}

NewServeMux == [panic |-> FALSE, entries |-> {}]

\* mux.Handle / mux.HandleFunc: registering a conflicting pattern panics
Handle(mux, p) ==
    IF mux.panic THEN mux
    ELSE IF \E q \in mux.entries : ConflictsWith(p, q)
    THEN [panic |-> TRUE, entries |-> mux.entries]
    ELSE [panic |-> FALSE, entries |-> mux.entries \cup {p}]

RECURSIVE HandleAll(_, _)
HandleAll(mux, ps) ==
    IF ps = <<>> THEN mux ELSE HandleAll(Handle(mux, Head(ps)), Tail(ps))

PprofPrefix == <<"debug", "pprof">>

\* monserver.go: the pprof handlers sit in a mux of their own
PprofMux ==
    HandleAll(NewServeMux,
              <<Pattern("GET", <<>>, TRUE, "Index"),
                Pattern("GET", <<"cmdline">>, FALSE, "Cmdline"),
                Pattern("GET", <<"profile">>, FALSE, "Profile"),
                Pattern("GET", <<"symbol">>, FALSE, "Symbol"),
                Pattern("GET", <<"trace">>, FALSE, "Trace")>>
              \o [i \in 1..Len(Profiles) |->
                    Pattern("GET", <<Profiles[i]>>, FALSE, "Handler")])

NewMonitoringServer(rev, logger, enablePprof) ==
    IF rev = "monserver.go"
    THEN HandleAll(NewServeMux,
                   <<Pattern("GET", <<>>, TRUE, "root"),
                     Pattern("HEAD", <<>>, TRUE, "rootHead"),
                     Pattern("GET", <<"health">>, FALSE, "health"),
                     Pattern("", <<"metrics">>, FALSE, "metrics")>>
                   \o IF enablePprof
                      THEN <<Pattern("", PprofPrefix, TRUE, "pprofMux")>>
                      ELSE <<>>)
    ELSE HandleAll(NewServeMux,
                   <<Pattern("GET", <<>>, TRUE, "root"),
                     Pattern("GET", <<"health">>, FALSE, "health"),
                     Pattern("GET", <<"metrics">>, FALSE, "metrics")>>
                   \o IF enablePprof
                      THEN <<Pattern("GET", PprofPrefix, TRUE, "Index"),
                             Pattern("GET", PprofPrefix \o <<"cmdline">>, FALSE, "Cmdline"),
                             Pattern("GET", PprofPrefix \o <<"profile">>, FALSE, "Profile"),
                             Pattern("GET", PprofPrefix \o <<"symbol">>, FALSE, "Symbol"),
                             Pattern("GET", PprofPrefix \o <<"trace">>, FALSE, "Trace")>>
                           \o [i \in 1..Len(Profiles) |->
                                 Pattern("GET", PprofPrefix \o <<Profiles[i]>>, FALSE,
                                         "Handler")]
                      ELSE <<>>)

\* A request is a method and a path /a/b or /a/b/ (slash); "/" is <<>> with
\* slash.  The requests of the model need no trailing-slash redirect.
Matches(p, r) ==
    /\ \/ p.method = ""
       \/ p.method = r.method
       \/ p.method = "GET" /\ r.method = "HEAD"
    /\ IF p.tree
       THEN IsPrefix(p.segs, r.segs) /\ (Len(r.segs) > Len(p.segs) \/ r.slash)
       ELSE p.segs = r.segs /\ ~r.slash

Answer(status, contentType, body) ==
    [status |-> status, contentType |-> contentType, body |-> body]

NotFound == Answer(404, "text/plain; charset=utf-8", "404 page not found")

\* pprof.Handler(name): runtimepprof.Lookup(name) is nil for an unknown name
PprofHandler(name) ==
    IF \E i \in 1..Len(Profiles) : Profiles[i] = name
    THEN Answer(200, "application/octet-stream", name)
    ELSE Answer(404, "text/plain; charset=utf-8", "Unknown profile")

\* pprof.Index looks at the whole path of the request
Index(r) ==
    IF IsPrefix(PprofPrefix, r.segs) /\ Len(r.segs) > Len(PprofPrefix)
    THEN PprofHandler(r.segs[Len(r.segs)])
    ELSE Answer(200, "text/html; charset=utf-8", "index")

\* ServeMux.ServeHTTP: the most specific matching pattern serves the request
RECURSIVE ServeHTTP(_, _)
ServeHTTP(mux, r) ==
    LET matching == {p \in mux.entries : Matches(p, r)}
        best == CHOOSE p \in matching :
                    \A q \in matching \ {p} : ComparePathsAndMethods(p, q) = "moreSpecific"
        h == best.handler
    IN  IF matching = {} THEN NotFound
        ELSE IF h \in {"root", "rootHead"}
        THEN IF r.segs # <<>> THEN NotFound
             ELSE IF h = "root" THEN Answer(200, "text/plain", "ok")
             ELSE Answer(200, "", "")
        ELSE IF h = "health" THEN Answer(200, "text/plain", "healthy")
        ELSE IF h = "metrics" THEN Answer(200, "text/plain; version=0.0.4", "metrics")
        ELSE IF h = "pprofMux" THEN ServeHTTP(PprofMux, r)
        ELSE IF h = "Index" THEN Index(r)
        ELSE IF h = "Handler" THEN PprofHandler(r.segs[Len(r.segs)])
        ELSE Answer(200, "application/octet-stream", h)

PprofNames ==
    {"cmdline", "profile", "symbol", "trace", "goroutine", "heap", "threadcreate",
     "block", "mutex"}

GetRequests ==
    {[method |-> "GET", segs |-> <<>>, slash |-> TRUE],
     [method |-> "GET", segs |-> PprofPrefix, slash |-> TRUE]}
    \cup {[method |-> "GET", segs |-> <<n>>, slash |-> FALSE] :
            n \in {"health", "metrics", "nonexistent"}}
    \cup {[method |-> "GET", segs |-> PprofPrefix \o <<n>>, slash |-> FALSE] :
            n \in PprofNames \cup {"nonexistent"}}

\* NewMonitoringServer(logger, enablePprof) and one request to the mux
Serve(rev, logger, enablePprof, r) ==
    IF NewMonitoringServer(rev, logger, enablePprof).panic THEN Panicked
    ELSE Returned(ServeHTTP(NewMonitoringServer(rev, logger, enablePprof), r))

CallServeHTTP ==
    /\ req.fn = "ServeHTTP"
    /\ ~resp.done
    /\ resp' = Serve(req.rev, req.logger, req.enablePprof, req.r)
    /\ LibUnchanged

LibInit ==
    /\ RunnerInit
    /\ neverDrains = FALSE
    /\ resp = NotCalled
    /\ \/ \E size \in Sizes : req = [fn |-> "GetResponseSizeRange", size |-> size]
       \/ \E count \in Counts : req = [fn |-> "GetFieldComplexityRange", count |-> count]
       \/ \E fn \in {"Error", "String", "MarshalText"}, rev \in Revisions, e \in RichErrors :
             req = [fn |-> fn, rev |-> rev, e |-> e]
       \/ \E rev \in Revisions, logging \in BOOLEAN, err \in FiberChains :
             req = [fn |-> "ErrorHandler", rev |-> rev, logging |-> logging, err |-> err]
       \/ \E err \in GqlChains : req = [fn |-> "ErrorPresenter", err |-> err]
       \/ \E rev \in MonRevisions, logger \in BOOLEAN, enablePprof \in BOOLEAN,
             r \in GetRequests :
             req = [fn |-> "ServeHTTP", rev |-> rev, logger |-> logger,
                    enablePprof |-> enablePprof, r |-> r]

LibNext ==
    \/ CallGetResponseSizeRange
    \/ CallGetFieldComplexityRange
    \/ CallError
    \/ CallString
    \/ CallMarshalText
    \/ CallErrorHandler
    \/ CallErrorPresenter
    \/ CallServeHTTP

LibSpec == LibInit /\ [][LibNext]_vars

\* ---- properties ----

Registered(a) == kind[a] # "none"

\* C1: once Wait has returned, no run task and no watch task of any adapter is
\* still running, also when a task failed before the others ended.
C1_JoinWaitsForAll ==
    mainPc = "returned" =>
        \A a \in Adapters : Registered(a) => runPc[a] = "done" /\ watchPc[a] = "done"

C1_Witness ==
    /\ mainPc = "returned"
    /\ joinResult # NoErr
    /\ nAdapters >= 2

\* C2: the group's error is the first non-nil error any task returned, later
\* errors never replace it, and Wait returns it (nil when no task failed).
C2_FirstErrorWins ==
    /\ groupErr = firstErr
    /\ mainPc = "returned" => joinResult = firstErr

\* a failure was returned after a non-failure error had taken the slot
C2_Witness ==
    /\ mainPc = "returned"
    /\ joinResult.cause \in {"closed", "stopped"}
    /\ envFailed

\* C3: when a run task's bind or serve failure is the group's first error,
\* no adapter is left serving on an open listener once every registered
\* adapter's stop call has returned, and when Wait returns it returns that
\* error after every registered adapter was stopped.
C3_FailureStopsAll ==
    (firstErr.task = "run" /\ firstErr.cause \in {"bind", "serve"}) =>
        /\ (\A a \in Adapters : Registered(a) => watchPc[a] = "done") =>
               \A a \in Adapters : ~(runPc[a] = "serving" /\ lis[a] = "bound")
        /\ mainPc = "returned" =>
               /\ joinResult = firstErr
               /\ \A a \in Adapters : Registered(a) => stopCalls[a] = 1

\* C4: when the context was cancelled by signal or parent and no bind, serve or
\* stop call failed, every adapter was stopped and Wait returns nil.
C4_CleanShutdownNil ==
    (mainPc = "returned" /\ ctxDone /\ ~envFailed) =>
        /\ joinResult = NoErr
        /\ \A a \in Adapters : Registered(a) => stopCalls[a] = 1

\* C5: the "server closed" condition a serve call returns after graceful stop
\* is never the error stored in the group nor the error Wait returns.
C5_ClosedSuppressed ==
    /\ groupErr.cause # "closed"
    /\ joinResult.cause # "closed"

\* C6: once the context is cancelled, Wait eventually returns, whatever the
\* order of an adapter's stop call and its run task's start.
C6_StopBeforeStartTerminates == gCtxDone ~> (mainPc = "returned")

\* C7: a run task spawned when the context was already cancelled never binds
\* a listener.
C7_LateRunTaskNeverBinds == ~lateBound

\* C8: the graceful-stop operation of an adapter is invoked at most once.
C8_StopAtMostOnce == \A a \in Adapters : stopCalls[a] <= 1

\* a signal, the parent's cancellation, a task failure and Wait's return all
\* happened, and the adapters were stopped
C8_Witness ==
    /\ mainPc = "returned"
    /\ parentDone
    /\ sigCh = 1
    /\ groupErr # NoErr
    /\ \A a \in Adapters : stopCalls[a] = 1

\* C9: the returned context is done whenever the parent is cancelled, and it is
\* done as soon as NotifyContext has taken a signal from its channel.
C9_SignalOrParentCancels ==
    /\ [](parentDone => gCtxDone)
    /\ [][(sigCh = 1 /\ sigCh' = 0) => gCtxDone']_vars

\* cancelled by a signal alone
C9_Witness ==
    /\ gCtxDone
    /\ ctxDone
    /\ ~parentDone
    /\ groupErr = NoErr
    /\ mainPc = "register"

\* C10: once the returned context is done, the signal registration is
\* eventually released.
C10_RegistrationReleased == gCtxDone ~> ~sigRegistered

\* C11 as stated: when the message was logged, the returned context was not
\* yet done.
C11_LogBeforeCancel == logged => logBeforeDone

\* C11 amended: the message is logged only when the context is done already
\* (cancellation has reached the returned context), and while the signal
\* registration is still in place.
C11_LogAfterCancel ==
    /\ [](logged => (gCtxDone /\ ~logBeforeDone))
    /\ [][(~logged /\ logged') => (ctxDone /\ gCtxDone /\ sigRegistered)]_vars

\* the message was logged for a received signal
C11_Witness ==
    /\ logged
    /\ ~parentDone
    /\ sigCh = 0
    /\ ctxDone

\* C12: once an adapter's graceful stop has been invoked, its run task never
\* enters the serving state again.
C12_NoServingAfterStop ==
    [][\A a \in Adapters :
          (stopCalls[a] >= 1 /\ runPc[a] # "serving") => runPc'[a] # "serving"]_vars

\* C13: no graceful stop is invoked while the context given to the adapter is
\* not cancelled.
C13_StopOnlyAfterCancel ==
    /\ ~stopBeforeDone
    /\ \A a \in Adapters : stopCalls[a] >= 1 => gCtxDone

\* a serving adapter was stopped
C13_Witness ==
    \E a \in Adapters :
        /\ stopCalls[a] = 1
        /\ runPc[a] = "serving"
        /\ lis[a] = "closed"

\* C14: a stop call that fails when no task error arrived before makes its
\* wrapped error the group's error without any stop being invoked in that
\* step; Wait then returns it, and no adapter is stopped more than once.
C14_StopFailureReported ==
    /\ []((mainPc = "returned" /\ firstErr.task = "watch") =>
              /\ joinResult = firstErr
              /\ \A a \in Adapters : stopCalls[a] <= 1)
    /\ [][\A a \in Adapters :
             (/\ watchPc[a] = "stopping"
              /\ watchPc'[a] = "done"
              /\ ~envFailed
              /\ envFailed'
              /\ groupErr = NoErr)
             => /\ groupErr'.a = a
                /\ groupErr'.task = "watch"
                /\ groupErr'.cause \in {"shutdown", "ctx"}
                /\ stopCalls' = stopCalls]_vars

C14_Witness ==
    /\ mainPc = "returned"
    /\ joinResult.task = "watch"
    /\ joinResult.cause \in {"shutdown", "ctx"}
    /\ nAdapters >= 2

\* C16: a done context stays done, and while it is done every watch task
\* that is still waiting can take its stop step, not only one of them.
C16_MonotonicBroadcast ==
    /\ [][gCtxDone => gCtxDone']_vars
    /\ [](gCtxDone => \A a \in Adapters :
                          watchPc[a] = "wait" => ENABLED WatchStop(a))

\* one cancellation released the watch tasks of two adapters
C16_Witness ==
    /\ gCtxDone
    /\ Cardinality({a \in Adapters : stopCalls[a] = 1}) >= 2
    /\ groupErr = NoErr

\* C15: a RunHandler watch task that has called Shutdown returns, and Wait
\* returns once the context is cancelled, also when the handler's requests
\* never finish.
C15_HandlerShutdownBounded ==
    /\ (watchPc[1] = "stopping") ~> (watchPc[1] = "done")
    /\ gCtxDone ~> (mainPc = "returned")

\* Shutdown returned ctx.Err() on a handler that never drains
C15_Witness ==
    /\ neverDrains
    /\ kind[1] = "handler"
    /\ mainPc = "returned"
    /\ firstErr = Err(1, "watch", "ctx")

\* ---- what a handled request must satisfy ----
TokenMws == {"AllOfPermissions", "OneOfPermissions"}

AddressMws == {"AllOfPermissionsAddress", "OneOfPermissionsAddress"}

AllOfMws == {"AllOfPermissions", "AllOfPermissionsAddress"}

OneOfMws == {"OneOfPermissions", "OneOfPermissionsAddress"}

Handled == resp # "none"

\* the asset of the claims, decoded
AssetDID == DecodeERC721DID(req.asset)

\* the path parameter read as a decimal number
PathTokenID == SetString10(req.param)

\* the path parameter is AddrHexLen hex digits, with or without a 0x prefix
ValidAddressParam ==
    \E b \in {req.param} \cup {SubSeq(req.param, 3, Len(req.param)) : x \in {"x", "X"}} :
        /\ b = req.param \/ (Len(req.param) >= 2 /\ req.param[1] = "0"
                             /\ req.param[2] \in {"x", "X"})
        /\ Len(b) = AddrHexLen
        /\ \A i \in DOMAIN b : b[i] \in HexChars

\* the address the path parameter denotes
ParamAddress ==
    LET b == IF Len(req.param) = AddrHexLen THEN req.param
             ELSE SubSeq(req.param, 3, Len(req.param))
    IN  [i \in 1..AddrHexLen |-> HexVal(b[i])]

\* the claims are present and their asset is the one the request names
AssetChecksPass ==
    /\ req.hasClaims
    /\ AssetDID.ok
    /\ IF req.mw \in TokenMws
       THEN /\ PathTokenID.ok
            /\ AssetDID.tokenID = PathTokenID.val
            /\ AssetDID.contract = req.contract
       ELSE /\ ValidAddressParam
            /\ AssetDID.contract = ParamAddress

HoldsAll == \A i \in DOMAIN req.permissions : Contains(req.tokenPerms, req.permissions[i])

HoldsOne == \E i \in DOMAIN req.permissions : Contains(req.tokenPerms, req.permissions[i])

C28_BindBeforeServe ==
    \A a \in Adapters : kind[a] = "grpc" =>
        /\ runPc[a] \in {"bound", "serving"} => lis[a] \in {"bound", "closed"}
        /\ lis[a] = "none" => runPc[a] \in {"start", "done"}
        /\ (firstErr = Err(a, "run", "bind") \/ groupErr = Err(a, "run", "bind"))
               => (lis[a] = "none" /\ runPc[a] = "done")

\* a gRPC adapter whose bind failed, and Wait returned that failure
C28_Witness ==
    \E a \in Adapters :
        /\ kind[a] = "grpc"
        /\ joinResult = Err(a, "run", "bind")
        /\ lis[a] = "none"

TasksOf(a) ==
    {t \in {"run", "watch"} : (t = "run" /\ runPc[a] # "none")
                              \/ (t = "watch" /\ watchPc[a] # "none")}

\* C29: every registered adapter has exactly its run task and its watch task
\* in the group, for its one server, and an adapter not registered has none:
\* after k registrations the group holds 2k tasks.
C29_TwoTasksPerAdapter ==
    /\ \A a \in Adapters :
          IF a <= nAdapters
          THEN TasksOf(a) = {"run", "watch"} /\ kind[a] \in Kinds
          ELSE TasksOf(a) = {} /\ kind[a] = "none"
    /\ Cardinality({at \in Adapters \X {"run", "watch"} : at[2] \in TasksOf(at[1])})
           = 2 * nAdapters

\* all adapters are registered and each has both tasks
C29_Witness ==
    /\ nAdapters = MaxAdapters
    /\ \A a \in Adapters : runPc[a] = "start" /\ watchPc[a] = "wait"

\* C30: RunHandler's watch task calls srv.Shutdown only when the context is
\* done and hands it that context: a Shutdown that finds requests in flight
\* returns at once with the context's error, without waiting for them.
C30_NoGracePeriod ==
    /\ [](\A a \in Adapters :
             (kind[a] = "handler" /\ stopCalls[a] >= 1) =>
                 /\ gCtxDone
                 /\ (neverDrains /\ watchPc[a] = "stopping") => ENABLED WatchReturn(a))
    /\ [][\A a \in Adapters :
             (/\ kind[a] = "handler" /\ neverDrains
              /\ watchPc[a] = "stopping" /\ watchPc'[a] = "done")
             => /\ envFailed'
                /\ firstErr = NoErr => firstErr' = Err(a, "watch", "ctx")]_vars

\* Shutdown was called on a serving handler whose requests never finish
C30_Witness ==
    /\ neverDrains
    /\ kind[1] = "handler"
    /\ watchPc[1] = "done"
    /\ runPc[1] = "serving"
    /\ groupErr = Err(1, "watch", "ctx")

\* ---- helper packages ----
\* the documented range of a field count label; hi = -1 stands for no upper end
FieldCountDoc(label) ==
    CASE label = "0-5" -> [lo |-> 0, hi |-> 5]
      [] label = "6-10" -> [lo |-> 6, hi |-> 10]
      [] label = "11-20" -> [lo |-> 11, hi |-> 20]
      [] label = "21-40" -> [lo |-> 21, hi |-> 40]
      [] label = "41+" -> [lo |-> 41, hi |-> 0 - 1]

\* the documented range of a response size label, the upper threshold included
ResponseSizeDoc(label) ==
    CASE label = "0-10KB" -> [lo |-> 0, hi |-> 10 * 1024]
      [] label = "10-100KB" -> [lo |-> 10 * 1024 + 1, hi |-> 100 * 1024]
      [] label = "100KB-1MB" -> [lo |-> 100 * 1024 + 1, hi |-> 1024 * 1024]
      [] label = "1-10MB" -> [lo |-> 1024 * 1024 + 1, hi |-> 10 * 1024 * 1024]
      [] label = "10MB-1GB" -> [lo |-> 10 * 1024 * 1024 + 1, hi |-> 1024 * 1024 * 1024]
      [] label = ">1GB" -> [lo |-> 1024 * 1024 * 1024 + 1, hi |-> 0 - 1]

FieldCountLabels == {"0-5", "6-10", "11-20", "21-40", "41+"}

ResponseSizeLabels == {"0-10KB", "10-100KB", "100KB-1MB", "1-10MB", "10MB-1GB", ">1GB"}

InRange(n, r) == n >= r.lo /\ (r.hi = 0 - 1 \/ n <= r.hi)

\* the labels whose documented range contains the input of the call
LabelsFor ==
    IF req.fn = "GetFieldComplexityRange"
    THEN {l \in FieldCountLabels : InRange(req.count, FieldCountDoc(l))}
    ELSE {l \in ResponseSizeLabels : InRange(req.size, ResponseSizeDoc(l))}

MetricsCall == req.fn \in {"GetFieldComplexityRange", "GetResponseSizeRange"} /\ resp.done

MetricsInput == IF req.fn = "GetFieldComplexityRange" THEN req.count ELSE req.size

\* C27 as stated: every integer gets the one label whose documented range
\* contains it.
C27_EveryIntegerInItsRange ==
    MetricsCall => LabelsFor = {resp.val}

\* C27 amended: every integer from 0 on gets the one label whose documented
\* range contains it, a threshold belonging to the range below it; a negative
\* integer is in no documented range and gets the lowest label.
C27_NonNegativeInItsRange ==
    MetricsCall =>
        /\ ~resp.panic
        /\ MetricsInput >= 0 => LabelsFor = {resp.val}
        /\ MetricsInput < 0 =>
              /\ LabelsFor = {}
              /\ resp.val = IF req.fn = "GetFieldComplexityRange" THEN "0-5" ELSE "0-10KB"

\* a size on the 1GB threshold
C27_Witness ==
    /\ req.fn = "GetResponseSizeRange"
    /\ resp.done
    /\ req.size = 1024 * 1024 * 1024
    /\ resp.val = "10MB-1GB"

RichCall == req.fn \in {"Error", "String", "MarshalText"} /\ resp.done

\* C23: Error(), String() and MarshalText() return a string, and do not
\* panic, whether or not ExternalMsg and Err are set.
C23_NoPanic == RichCall => ~resp.panic

\* C24: for a value that wraps an error, Error() is the ExternalMsg when that
\* is set and the wrapped error's message when it is not.
C24_ExternalMsgOrWrapped ==
    (req.fn = "Error" /\ resp.done /\ req.e.Err # "nil") =>
        /\ ~resp.panic
        /\ resp.val = IF req.e.ExternalMsg # <<>> THEN req.e.ExternalMsg ELSE <<req.e.Err>>

\* the positions of the errors of a kind in the chain of the call
Positions(type) == {i \in DOMAIN req.err : req.err[i].kind = type}

\* the outermost error of a kind
Outermost(type) == req.err[CHOOSE i \in Positions(type) : \A j \in Positions(type) : i <= j]

\* what the claim expects ErrorHandler to answer
ExpectedAnswer ==
    IF Positions("fiber") # {}
    THEN [code |-> Outermost("fiber").Code, message |-> Outermost("fiber").Message]
    ELSE IF Positions("rich") # {}
    THEN [code |-> IF Outermost("rich").Code = 0 THEN 500 ELSE Outermost("rich").Code,
          message |-> Outermost("rich").ExternalMsg]
    ELSE [code |-> 500, message |-> <<"Internal error">>]

\* C25: ErrorHandler answers with the *fiber.Error of the chain if there is
\* one, else with the rich error's ExternalMsg and Code (500 for Code 0), else
\* with 500 "Internal error"; status and body code agree, and the error is
\* logged unless the code is 404.
C25_ErrorHandlerAnswer ==
    (req.fn = "ErrorHandler" /\ resp.done) =>
        /\ ~resp.panic
        /\ resp.val.status = ExpectedAnswer.code
        /\ resp.val.body.Message = ExpectedAnswer.message
        /\ resp.val.body.Code = resp.val.status
        /\ resp.val.logged <=> resp.val.status # 404

\* C26: ErrorPresenter gives nil for nil, the outermost *gqlerror.Error of the
\* chain with its Message and Extensions when there is one, and otherwise an
\* error whose Message is "internal server error" whatever the error says.
C26_NoRawMessage ==
    (req.fn = "ErrorPresenter" /\ resp.done) =>
        /\ ~resp.panic
        /\ resp.val.isNil <=> req.err = <<>>
        /\ (req.err # <<>> /\ Positions("gql") = {}) =>
               resp.val.Message = <<"internal server error">>
        /\ Positions("gql") # {} =>
               /\ resp.val.Message = <<Outermost("gql").Message>>
               /\ resp.val.Extensions = Outermost("gql").Extensions

\* a raw error wrapped in another raw error
C26_Witness ==
    /\ req.fn = "ErrorPresenter"
    /\ resp.done
    /\ Len(req.err) = 2
    /\ Positions("gql") = {}
    /\ resp.val.Message = <<"internal server error">>
PprofRequest == IsPrefix(PprofPrefix, req.r.segs)

\* C21: a GET on /debug/pprof/, on cmdline, profile, symbol and trace and on
\* the named profiles is answered with 200 when enablePprof is true and every
\* path under /debug/pprof/ with 404 when it is false; a nil logger gives the
\* same answers.
C21_PprofRoutes ==
    (req.fn = "ServeHTTP" /\ PprofRequest /\ resp.done) =>
        /\ ~resp.panic
        /\ (req.enablePprof /\ req.r.segs[Len(req.r.segs)] \in PprofNames \cup {"pprof"})
               => resp.val.status = 200
        /\ ~req.enablePprof => resp.val.status = 404
        /\ resp = Serve(req.rev, ~req.logger, req.enablePprof, req.r)

\* C22: GET / gives 200 "ok", GET /health gives 200 "healthy", both as
\* text/plain, and a path that is not registered gives 404.
C22_RootAndHealth ==
    (req.fn = "ServeHTTP" /\ ~PprofRequest /\ resp.done) =>
        /\ ~resp.panic
        /\ req.r.segs = <<>> => resp.val = Answer(200, "text/plain", "ok")
        /\ req.r.segs = <<"health">> => resp.val = Answer(200, "text/plain", "healthy")
        /\ req.r.segs = <<"nonexistent">> => resp.val.status = 404
====
